---- MODULE Spec2Model ----
(***************************************************************************)
(* A model of mkvnmp4.py: the config loader, the candidate scanner, the    *)
(* duplicate classifier, the Subler / Finder bridge and the CLI driver.    *)
(*                                                                         *)
(* Text is modelled as sequences of one-character strings, so that the     *)
(* string operations of the code (strip, lower, endswith, splitlines,      *)
(* Path.suffix, the AppleScript quoting) are computed, not assumed.  A     *)
(* path is a sequence of components, each a sequence of characters.        *)
(***************************************************************************)
EXTENDS Integers, Sequences, FiniteSets, TLC

VARIABLES
    cfg,        \* the four candidate config files: None or Some(the file's text)
    tree,       \* the regular files of the filesystem: a set of paths
    args,       \* the parsed command line
    pc,         \* position of the run
    drives,     \* main: drives
    existing,   \* main: existing
    duplicates, \* main: duplicates
    to_send,    \* main: to_send, and the files parameter of the enqueue functions
    idx,        \* index of the next file of the running per-file loop
    out,        \* lines printed to stdout, in order
    calls,      \* calls of NSWorkspace's openFile and of run_applescript, in order
    effects,    \* what the script run last made Subler and Finder do, in order
    answer,     \* None before the prompt, then Some(what input() returned)
    trashed,    \* files Finder moved to the trash
    exitCode,   \* None while main runs, then Some(its return value)
    scanRoot,   \* find_candidates harness: root
    scanDepth,  \* find_candidates harness: maxdepth
    yielded     \* find_candidates harness: what the generator yielded

vars == <<cfg, tree, args, pc, drives, existing, duplicates, to_send, idx, out,
          calls, effects, answer, trashed, exitCode, scanRoot, scanDepth, yielded>>

----------------------------------------------------------------------------
(* Bounds of the model *)

\* lines of a config file
MaxLines == 2
\* depth of the directory chain /d, /d/d, ...
TreeDepth == 3
\* regular files in a scanned tree
MaxFiles == 2
\* largest --maxdepth the scanner harness tries
MaxDepthArg == 3
\* regular files in the tree of a whole run
MaxRunFiles == 3
\* files handed to enqueue_to_subler in its harness
MaxEnqueue == 2

----------------------------------------------------------------------------
(* Characters and strings *)

\* An optional value is <<>> (none) or <<v>>: cfg[i], answer and exitCode.
None == <<>>
Some(v) == <<v>>

Whitespace == {" ", "\t"}

RECURSIVE lstrip(_)
lstrip(s) ==
    IF s # <<>> /\ Head(s) \in Whitespace THEN lstrip(Tail(s)) ELSE s

RECURSIVE rstrip(_)
rstrip(s) ==
    IF s # <<>> /\ s[Len(s)] \in Whitespace
    THEN rstrip(SubSeq(s, 1, Len(s) - 1))
    ELSE s

\* str.strip()
strip(s) == rstrip(lstrip(s))

LowerChar(c) ==
    CASE c = "A" -> "a" [] c = "B" -> "b" [] c = "E" -> "e" [] c = "K" -> "k"
      [] c = "M" -> "m" [] c = "N" -> "n" [] c = "P" -> "p" [] c = "S" -> "s"
      [] c = "V" -> "v" [] c = "Y" -> "y"
      [] OTHER -> c

\* str.lower()
lower(s) == [i \in 1..Len(s) |-> LowerChar(s[i])]

\* str.startswith / str.endswith
startswith(s, prefix) ==
    Len(s) >= Len(prefix) /\ SubSeq(s, 1, Len(prefix)) = prefix

endswith(s, suffix) ==
    Len(s) >= Len(suffix) /\ SubSeq(s, Len(s) - Len(suffix) + 1, Len(s)) = suffix

\* str.splitlines(): a final line break opens no further line
RECURSIVE splitlines_from(_, _)
splitlines_from(s, cur) ==
    IF s = <<>> THEN (IF cur = <<>> THEN <<>> ELSE <<cur>>)
    ELSE IF Head(s) = "\n" THEN <<cur>> \o splitlines_from(Tail(s), <<>>)
    ELSE splitlines_from(Tail(s), Append(cur, Head(s)))

splitlines(s) == splitlines_from(s, <<>>)

\* the components of a path string: split at "/", empty components dropped
RECURSIVE parts_from(_, _)
parts_from(s, cur) ==
    IF s = <<>> THEN (IF cur = <<>> THEN <<>> ELSE <<cur>>)
    ELSE IF Head(s) = "/"
         THEN (IF cur = <<>> THEN <<>> ELSE <<cur>>) \o parts_from(Tail(s), <<>>)
    ELSE parts_from(Tail(s), Append(cur, Head(s)))

\* Path(string)
PathOf(s) == parts_from(s, <<>>)

\* str(path) of an absolute path
RECURSIVE PathStr(_)
PathStr(p) ==
    IF p = <<>> THEN <<>> ELSE <<"/">> \o Head(p) \o PathStr(Tail(p))

Home == <<"/", "h">>

\* os.path.expanduser: a leading "~" alone or before "/" becomes the home
expanduser(s) ==
    IF s # <<>> /\ Head(s) = "~" /\ (Len(s) = 1 \/ s[2] = "/")
    THEN Home \o Tail(s)
    ELSE s

----------------------------------------------------------------------------
(* Sets as sequences, and sequence helpers *)

\* A directory listing has no order of its own; the model fixes one.
RECURSIVE SetToSeq(_)
SetToSeq(S) ==
    IF S = {} THEN <<>>
    ELSE LET x == CHOOSE y \in S : TRUE
         IN  <<x>> \o SetToSeq(S \ {x})

RECURSIVE Concat(_)
Concat(ss) == IF ss = <<>> THEN <<>> ELSE Head(ss) \o Concat(Tail(ss))

RECURSIVE SelectIn(_, _)
SelectIn(s, S) ==
    IF s = <<>> THEN <<>>
    ELSE (IF Head(s) \in S THEN <<Head(s)>> ELSE <<>>) \o SelectIn(Tail(s), S)

Range(s) == {s[i] : i \in 1..Len(s)}

----------------------------------------------------------------------------
(* The filesystem *)

\* the directory /d/d/.../d of depth n
DirChain(n) == [i \in 1..n |-> <<"d">>]

\* the directories: /, the home /h, and the chain /d, /d/d, ...
Dirs == {<<>>, <<<<"h">>>>} \cup {DirChain(n) : n \in 1..TreeDepth}

\* one symbolic link, /l -> /d/d
Link == <<<<"l">>>>
LinkTarget == DirChain(IF TreeDepth >= 2 THEN 2 ELSE TreeDepth)

\* Path.resolve(): symbolic links followed
resolve(p) ==
    IF Len(p) >= Len(Link) /\ SubSeq(p, 1, Len(Link)) = Link
    THEN LinkTarget \o SubSeq(p, Len(Link) + 1, Len(p))
    ELSE p

\* Path.exists(): follows symbolic links; t is the set of regular files
exists(t, p) == resolve(p) \in Dirs \cup t

parent(p) == SubSeq(p, 1, Len(p) - 1)
name(p) == p[Len(p)]

\* os.walk(top), top-down, links not followed: the directories visited, in order.
\* A top that is no directory yields nothing (scandir's error is ignored).
RECURSIVE walk(_)
walk(top) ==
    IF top \notin Dirs THEN <<>>
    ELSE <<top>> \o
         Concat([i \in 1..Cardinality({c \in Dirs : c # <<>> /\ parent(c) = top}) |->
                    walk(SetToSeq({c \in Dirs : c # <<>> /\ parent(c) = top})[i])])

\* the filenames os.walk reports for dirpath
filenames(t, dirpath) ==
    LET fs == SetToSeq({f \in t : parent(f) = dirpath})
    IN  [i \in 1..Len(fs) |-> name(fs[i])]

----------------------------------------------------------------------------
(* Config loader *)

CONFIG_PATHS ==
    << PathOf(<<"/","e","t","c","/","m",".","c">>),
       PathOf(<<"/","e","t","c","/","m","/","m",".","c">>),
       PathOf(Home \o <<"/",".","m",".","c">>),
       PathOf(Home \o <<"/",".","c","/","m",".","c">>) >>

\* config_dirs with the line tested as read, not stripped first
RECURSIVE config_dirs_unstripped(_)
config_dirs_unstripped(lines) ==
    IF lines = <<>> THEN <<>>
    ELSE LET line == Head(lines)
         IN  (IF strip(line) = <<>> \/ startswith(line, <<"#">>)
              THEN <<>>
              ELSE <<PathOf(expanduser(strip(line)))>>)
             \o config_dirs_unstripped(Tail(lines))

\* the body of read_config's inner loop over text.splitlines()
RECURSIVE config_dirs(_)
config_dirs(lines) ==
    IF lines = <<>> THEN <<>>
    ELSE LET line == strip(Head(lines))
         IN  (IF line = <<>> \/ startswith(line, <<"#">>)
              THEN <<>>
              ELSE <<PathOf(expanduser(line))>>) \o config_dirs(Tail(lines))

\* read_config returning an empty list where it should raise
RECURSIVE read_config_from_empty(_, _)
read_config_from_empty(c, i) ==
    IF i > Len(CONFIG_PATHS) THEN [found |-> TRUE, dirs |-> <<>>]
    ELSE IF c[i] # None
         THEN [found |-> TRUE, dirs |-> config_dirs(splitlines(c[i][1]))]
         ELSE read_config_from_empty(c, i + 1)

\* read_config: [found |-> FALSE] stands for raise SystemExit
RECURSIVE read_config_from(_, _)
read_config_from(c, i) ==
    IF i > Len(CONFIG_PATHS) THEN [found |-> FALSE, dirs |-> <<>>]
    ELSE IF c[i] # None
         THEN [found |-> TRUE, dirs |-> config_dirs(splitlines(c[i][1]))]
         ELSE read_config_from(c, i + 1)

read_config(c) == read_config_from(c, 1)

----------------------------------------------------------------------------
(* Candidate scanner and duplicate classifier *)

MKV == <<".", "m", "k", "v">>
M4V == <<".", "m", "4", "v">>
MP4 == <<".", "m", "p", "4">>

A_MKV == <<"a", ".", "m", "k", "v">>
A_MP4 == <<"a", ".", "m", "p", "4">>
A_M4V == <<"a", ".", "M", "4", "v">>
B_M4V == <<"b", ".", "M", "4", "v">>

\* candidates_in with the depth test off by one: cur_depth >= maxdepth
candidates_in_offbyone(t, dirpath, base_depth, maxdepth) ==
    LET cur_depth == Len(resolve(dirpath)) - base_depth
        names == filenames(t, dirpath)
    IN  IF cur_depth >= maxdepth THEN <<>>
        ELSE Concat([i \in 1..Len(names) |->
                 LET low == lower(names[i])
                 IN  IF endswith(low, MKV) \/ endswith(low, M4V)
                     THEN <<Append(dirpath, names[i])>>
                     ELSE <<>>])

\* the candidates find_candidates yields from one visited directory
candidates_in(t, dirpath, base_depth, maxdepth) ==
    LET cur_depth == Len(resolve(dirpath)) - base_depth
        names == filenames(t, dirpath)
    IN  IF cur_depth > maxdepth THEN <<>>
        ELSE Concat([i \in 1..Len(names) |->
                 LET low == lower(names[i])
                 IN  IF endswith(low, MKV) \/ endswith(low, M4V)
                     THEN <<Append(dirpath, names[i])>>
                     ELSE <<>>])

\* find_candidates(root, maxdepth): everything the generator yields, in order
find_candidates(t, root, maxdepth) ==
    LET r == resolve(root)
        visited == walk(r)
    IN  Concat([i \in 1..Len(visited) |->
                   candidates_in(t, visited[i], Len(r), maxdepth)])

\* str.rfind("."), 1-based; 0 when there is none
RECURSIVE rfind_dot(_)
rfind_dot(s) ==
    IF s = <<>> THEN 0
    ELSE IF s[Len(s)] = "." THEN Len(s)
    ELSE rfind_dot(SubSeq(s, 1, Len(s) - 1))

\* PurePath.suffix: from the last dot, unless it leads or ends the name
suffix(p) ==
    LET n == name(p)
        i == rfind_dot(n)
    IN  IF 1 < i /\ i < Len(n) THEN SubSeq(n, i, Len(n)) ELSE <<>>

\* PurePath.with_suffix
with_suffix(p, suf) ==
    LET n == name(p)
        old == suffix(p)
    IN  Append(parent(p), SubSeq(n, 1, Len(n) - Len(old)) \o suf)

has_mp4_equivalent(t, path) ==
    IF lower(suffix(path)) = MKV \/ lower(suffix(path)) = M4V
    THEN exists(t, with_suffix(path, MP4))
    ELSE FALSE

----------------------------------------------------------------------------
(* External bridge: the scripts and what the AppleScript engine makes of them *)

QUOTE == "\""
BACKSLASH == "\\"

DEFAULT_WAIT == 600

\* posix.replace('"', '\\"')
RECURSIVE escape_quotes(_)
escape_quotes(s) ==
    IF s = <<>> THEN <<>>
    ELSE (IF Head(s) = QUOTE THEN <<BACKSLASH, QUOTE>> ELSE <<Head(s)>>)
         \o escape_quotes(Tail(s))

\* The script text is kept as its parts: which of the three scripts it is, the
\* characters put between the quotes of POSIX file "...", the application told
\* to act, and the seconds of "with timeout" (0: no such block).
enqueue_script(f) ==
    [kind |-> "enqueue", literal |-> escape_quotes(PathStr(f)),
     app |-> "Subler", timeout |-> 0]

wait_script(f, timeout) ==
    [kind |-> "wait", literal |-> escape_quotes(PathStr(f)),
     app |-> "Subler", timeout |-> timeout]

delete_script(f) ==
    [kind |-> "delete", literal |-> escape_quotes(PathStr(f)),
     app |-> "Finder", timeout |-> 0]

\* How AppleScript reads the characters between the quotes of a string
\* literal: a backslash escapes the next character, a bare quote ends the
\* literal (what follows it is then a syntax error).  None: no valid literal.
RECURSIVE applescript_string(_)
applescript_string(s) ==
    IF s = <<>> THEN Some(<<>>)
    ELSE IF Head(s) = QUOTE THEN None
    ELSE IF Head(s) = BACKSLASH
         THEN IF Len(s) >= 2 /\ s[2] \in {QUOTE, BACKSLASH, "n", "t", "r"}
              THEN LET c == CASE s[2] = "n" -> "\n" [] s[2] = "t" -> "\t"
                              [] s[2] = "r" -> "\r" [] OTHER -> s[2]
                       rest == applescript_string(SubSeq(s, 3, Len(s)))
                   IN  IF rest = None THEN None ELSE Some(<<c>> \o rest[1])
              ELSE None
    ELSE LET rest == applescript_string(Tail(s))
         IN  IF rest = None THEN None ELSE Some(<<Head(s)>> \o rest[1])

\* The file a script's "POSIX file ... as alias" denotes: None when the script
\* does not compile or no such file exists (the coercion to alias fails).
script_target(t, gone, script) ==
    LET lit == applescript_string(script.literal)
    IN  IF lit = None THEN None
        ELSE IF PathOf(lit[1]) \in t \ gone THEN Some(PathOf(lit[1]))
        ELSE None

open_call(f) == [fn |-> "openFile", file |-> f, app |-> "Subler"]
script_call(f, script) == [fn |-> "run_applescript", file |-> f, script |-> script]

----------------------------------------------------------------------------
(* CLI driver and dispatch layer *)

DefaultMaxDepth == 4

\* the mutually exclusive group: at most one of --send, --wait, --rm, --dup
Modes == {"send", "wait", "rm", "dup", "none"}

\* A printed line: its fixed text, and the file or the number formatted into it.
Line(text, f, n) == [text |-> text, file |-> f, n |-> n]
NoPath == <<>>

\* print(...) once per file of fs, in order
LinesFor(text, fs, n) == [i \in 1..Len(fs) |-> Line(text, fs[i], n)]

\* collect without the test of has_mp4_equivalent
collect_unfiltered(t, roots, maxdepth, want) ==
    Concat([i \in 1..Len(roots) |-> find_candidates(t, roots[i], maxdepth)])

\* for d in existing: for p in find_candidates(d, maxdepth): if (not) has_mp4_equivalent(p)
collect(t, roots, maxdepth, want) ==
    LET found == Concat([i \in 1..Len(roots) |-> find_candidates(t, roots[i], maxdepth)])
    IN  SelectIn(found, {p \in Range(found) : has_mp4_equivalent(t, p) = want})

\* confirms without strip() and lower()
confirms_exact(ans) == ans \in {<<"y">>, <<"y", "e", "s">>}

\* what answers confirm_and_delete accepts: ans.strip().lower() in ('y', 'yes')
confirms(ans) == lower(strip(ans)) \in {<<"y">>, <<"y", "e", "s">>}

\* main returns code
Return(code) == pc' = "done" /\ exitCode' = Some(code)

\* the loop over files moves on, or the function and then main return 0
Advance(files, here) ==
    IF idx < Len(files)
    THEN idx' = idx + 1 /\ pc' = here /\ exitCode' = exitCode
    ELSE idx' = idx /\ Return(0)

\* lines 207-211
ReadConfig ==
    /\ pc = "start"
    /\ LET r == read_config(cfg)
       IN  IF r.found
           THEN /\ drives' = r.dirs
                /\ pc' = "validate"
                /\ UNCHANGED <<out, exitCode>>
           ELSE /\ out' = Append(out, Line("No config file found; looked at:", NoPath, 0))
                /\ Return(1)
                /\ UNCHANGED drives
    /\ UNCHANGED <<cfg, tree, args, existing, duplicates, to_send, idx, calls,
                   effects, answer, trashed, scanRoot, scanDepth, yielded>>

\* lines 213-217
FilterExisting ==
    /\ pc = "validate"
    /\ existing' = SelectIn(drives, {d \in Range(drives) : exists(tree, d)})
    /\ IF existing' = <<>>
       THEN /\ out' = Append(out, Line("No configured drives are present.", NoPath, 0))
            /\ Return(2)
       ELSE /\ pc' = "scan"
            /\ UNCHANGED <<out, exitCode>>
    /\ UNCHANGED <<cfg, tree, args, drives, duplicates, to_send, idx, calls,
                   effects, answer, trashed, scanRoot, scanDepth, yielded>>

\* lines 219-224
ScanDuplicates ==
    /\ pc = "scan"
    /\ duplicates' = collect(tree, existing, args.maxdepth, TRUE)
    /\ pc' = "dispatch"
    /\ UNCHANGED <<cfg, tree, args, drives, existing, to_send, idx, out, calls,
                   effects, answer, trashed, exitCode, scanRoot, scanDepth, yielded>>

\* lines 226-229
ListDuplicates ==
    /\ pc = "dispatch" /\ args.mode = "dup"
    /\ out' = out \o LinesFor("", duplicates, 0)
    /\ Return(0)
    /\ UNCHANGED <<cfg, tree, args, drives, existing, duplicates, to_send, idx,
                   calls, effects, answer, trashed, scanRoot, scanDepth, yielded>>

\* confirm_branch with the dry-run test left out
confirm_branch_nodry(files, dry_run, assume_yes) ==
    IF files = <<>> THEN "nothing"
    ELSE IF assume_yes THEN "delete"
    ELSE "prompt"

\* which way confirm_and_delete goes before it deletes, lines 170-183
confirm_branch(files, dry_run, assume_yes) ==
    IF files = <<>> THEN "nothing"
    ELSE IF dry_run THEN "report"
    ELSE IF assume_yes THEN "delete"
    ELSE "prompt"

\* lines 231-233 and confirm_and_delete up to the prompt, lines 169-179
ConfirmAndDelete ==
    /\ pc = "dispatch" /\ args.mode = "rm"
    /\ LET branch == confirm_branch(duplicates, args.dry_run, args.yes)
           listing == Append(out, Line("Files queued for deletion:", NoPath, 0))
                      \o LinesFor("  ", duplicates, 0)
       IN  CASE branch = "nothing" ->
                  /\ out' = Append(out, Line("No files to delete.", NoPath, 0))
                  /\ Return(0)
             [] branch = "report" ->
                  /\ out' = Append(listing,
                               Line("DRY-RUN: would delete files", NoPath, Len(duplicates)))
                  /\ Return(0)
             [] OTHER ->
                  /\ out' = listing
                  /\ pc' = branch
                  /\ UNCHANGED exitCode
    /\ idx' = 1
    /\ UNCHANGED <<cfg, tree, args, drives, existing, duplicates, to_send, calls,
                   effects, answer, trashed, scanRoot, scanDepth, yielded>>

Answers ==
    { <<"y">>, <<"Y">>, <<"y", "e", "s">>, <<" ", "Y", "e", "s", "\t">>,
      <<"n">>, <<>>, <<"y", "e">> }

\* lines 180-183
Prompt ==
    /\ pc = "prompt"
    /\ \E ans \in Answers :
          /\ answer' = Some(ans)
          /\ IF confirms(ans)
             THEN pc' = "delete" /\ UNCHANGED <<out, exitCode>>
             ELSE out' = Append(out, Line("Canceling.", NoPath, 0)) /\ Return(0)
    /\ UNCHANGED <<cfg, tree, args, drives, existing, duplicates, to_send, idx,
                   calls, effects, trashed, scanRoot, scanDepth, yielded>>

\* lines 185-190, one file; the script may fail (run_applescript's result is dropped)
DeleteNext ==
    /\ pc = "delete"
    /\ LET f == duplicates[idx]
           script == delete_script(f)
           target == script_target(tree, trashed, script)
       IN  /\ calls' = Append(calls, script_call(f, script))
           /\ \E ok \in BOOLEAN :
                 IF ok /\ target # None
                 THEN /\ trashed' = trashed \cup {target[1]}
                      /\ effects' = <<[app |-> "Finder", op |-> "delete",
                                       file |-> target[1]]>>
                 ELSE effects' = <<>> /\ UNCHANGED trashed
    /\ Advance(duplicates, "delete")
    /\ UNCHANGED <<cfg, tree, args, drives, existing, duplicates, to_send, out,
                   answer, scanRoot, scanDepth, yielded>>

\* lines 235-241, 245-250 and 254-259
CollectToSend ==
    /\ pc = "dispatch" /\ args.mode \in {"send", "wait", "none"}
    /\ to_send' = collect(tree, existing, args.maxdepth, FALSE)
    /\ pc' = IF args.mode = "wait" THEN "wait" ELSE "enqueue"
    /\ idx' = 1
    /\ UNCHANGED <<cfg, tree, args, drives, existing, duplicates, out, calls,
                   effects, answer, trashed, exitCode, scanRoot, scanDepth, yielded>>

\* enqueue_branch with the dry-run test left out
enqueue_branch_nodry(files, dry_run) ==
    IF files = <<>> THEN "nothing" ELSE "appkit"

\* which way enqueue_to_subler goes before it opens anything, lines 129-137
enqueue_branch(files, dry_run) ==
    IF files = <<>> THEN "nothing"
    ELSE IF dry_run THEN "report"
    ELSE "appkit"

\* enqueue_to_subler up to the call of try_open_with_appkit, lines 127-137
EnqueueToSubler ==
    /\ pc = "enqueue"
    /\ LET branch == enqueue_branch(to_send, args.dry_run)
       IN  CASE branch = "nothing" -> Return(0) /\ UNCHANGED out
             [] branch = "report" ->
                  /\ out' = out \o LinesFor("DRY-RUN: would enqueue", to_send, 0)
                  /\ Return(0)
             [] OTHER -> pc' = branch /\ UNCHANGED <<out, exitCode>>
    /\ idx' = 1
    /\ UNCHANGED <<cfg, tree, args, drives, existing, duplicates, to_send, calls,
                   effects, answer, trashed, scanRoot, scanDepth, yielded>>

\* try_open_with_appkit, lines 74-78: one file opened; after the last, True is
\* returned and enqueue_to_subler and main return
AppKitOpen ==
    /\ pc = "appkit"
    /\ LET f == to_send[idx]
       IN  /\ out' = IF args.verbose > 0
                     THEN Append(out, Line("AppKit: opening with Subler", f, 0))
                     ELSE out
           /\ calls' = Append(calls, open_call(f))
    /\ Advance(to_send, "appkit")
    /\ UNCHANGED <<cfg, tree, args, drives, existing, duplicates, to_send, effects,
                   answer, trashed, scanRoot, scanDepth, yielded>>

\* try_open_with_appkit, lines 65-69 and 77-80: the import, the workspace or the
\* open of file idx raises; False is returned and the fallback loop starts over
AppKitRaise ==
    /\ pc = "appkit"
    /\ pc' = "fallback"
    /\ idx' = 1
    /\ UNCHANGED <<cfg, tree, args, drives, existing, duplicates, to_send, out,
                   calls, effects, answer, trashed, exitCode, scanRoot, scanDepth,
                   yielded>>

\* enqueue_to_subler's fallback loop, lines 141-149, one file
ScriptEnqueue ==
    /\ pc = "fallback"
    /\ LET f == to_send[idx]
       IN  /\ out' = IF args.verbose > 0
                     THEN Append(out, Line("Running applescript for:", f, 0))
                     ELSE out
           /\ calls' = Append(calls, script_call(f, enqueue_script(f)))
    /\ Advance(to_send, "fallback")
    /\ UNCHANGED <<cfg, tree, args, drives, existing, duplicates, to_send, effects,
                   answer, trashed, scanRoot, scanDepth, yielded>>

\* how the script's "start queue and wait" can end: the queue completed with the
\* item converted, or with the item failed (the command returns all the same);
\* or no reply came within "with timeout" and the script is aborted (an error
\* reply of Subler aborts it in the same way)
WaitOutcomes == {"converted", "failed", "timeout"}
Returned == {"converted", "failed"}

\* enqueue_and_wait, lines 152-166: the loop ends, or the next file's report
\* (dry run) or script call; a script that started blocks in "start queue and wait"
EnqueueAndWait ==
    /\ pc = "wait"
    /\ IF idx > Len(to_send)
       THEN Return(0) /\ UNCHANGED <<idx, out, calls, effects>>
       ELSE LET f == to_send[idx]
                script == wait_script(f, args.wait_timeout)
                target == script_target(tree, trashed, script)
            IN  IF args.dry_run
                THEN /\ out' = Append(out, Line("DRY-RUN: would enqueue and wait for",
                                                f, args.wait_timeout))
                     /\ idx' = idx + 1
                     /\ UNCHANGED <<pc, exitCode, calls, effects>>
                ELSE /\ out' = IF args.verbose > 0
                               THEN Append(out, Line("Running applescript (wait) for:", f, 0))
                               ELSE out
                     /\ calls' = Append(calls, script_call(f, script))
                     /\ UNCHANGED exitCode
                     /\ IF target # None
                           THEN /\ effects' = <<[app |-> "Subler", op |-> "add to queue",
                                                 file |-> target[1]]>>
                                /\ pc' = "waiting"
                                /\ idx' = idx
                           ELSE /\ effects' = <<>>
                                /\ idx' = idx + 1
                                /\ UNCHANGED pc
    /\ UNCHANGED <<cfg, tree, args, drives, existing, duplicates, to_send, answer,
                   trashed, scanRoot, scanDepth, yielded>>

\* the rest of the script of lines 161-163, inside run_applescript: the wait
\* ends; if the command returned, Finder deletes the file when it exists
QueueWait ==
    /\ pc = "waiting"
    /\ LET f == to_send[idx]
       IN  \E o \in WaitOutcomes :
              IF o \in Returned /\ f \in tree \ trashed
              THEN /\ effects' = effects \o
                         << [app |-> "Subler", op |-> o, file |-> f],
                            [app |-> "Finder", op |-> "delete", file |-> f] >>
                   /\ trashed' = trashed \cup {f}
              ELSE /\ effects' = Append(effects, [app |-> "Subler", op |-> o, file |-> f])
                   /\ UNCHANGED trashed
    /\ idx' = idx + 1
    /\ pc' = "wait"
    /\ UNCHANGED <<cfg, tree, args, drives, existing, duplicates, to_send, out,
                   calls, answer, exitCode, scanRoot, scanDepth, yielded>>

----------------------------------------------------------------------------
(* A whole run of main *)

\* the lines "/d", "/x" (which does not exist) and "/l" (the link to /d/d)
RunLines == { <<"/", "d">>, <<"/", "x">>, <<"/", "l">> }

\* every text of at most n lines out of lines, each line ended by a line break
Texts(lines, n) ==
    { Concat([i \in 1..Len(ls) |-> ls[i] \o <<"\n">>]) :
        ls \in UNION {[1..k -> lines] : k \in 0..n} }

NoConfigs == [i \in 1..Len(CONFIG_PATHS) |-> None]

\* the regular files a run's tree may hold: /d/a.mkv, and in /d/d the files
\* a.mkv, a.M4v and a.mp4 (both candidates there have a.mp4 as equivalent)
RunFiles ==
    {Append(DirChain(1), A_MKV)} \cup
    {Append(LinkTarget, nm) : nm \in {A_MKV, A_M4V, A_MP4}}

Args ==
    [mode : Modes, dry_run : BOOLEAN, yes : BOOLEAN, verbose : {0, 1},
     maxdepth : {0, DefaultMaxDepth}, wait_timeout : {DEFAULT_WAIT}]

Init ==
    /\ cfg \in {NoConfigs} \cup
               {[NoConfigs EXCEPT ![3] = Some(t)] : t \in Texts(RunLines, MaxLines)}
    /\ tree \in {t \in SUBSET RunFiles : Cardinality(t) <= MaxRunFiles}
    /\ args \in Args
    /\ pc = "start"
    /\ drives = <<>> /\ existing = <<>> /\ duplicates = <<>> /\ to_send = <<>>
    /\ idx = 1
    /\ out = <<>> /\ calls = <<>> /\ effects = <<>>
    /\ answer = None /\ trashed = {} /\ exitCode = None
    /\ scanRoot = <<>> /\ scanDepth = 0 /\ yielded = <<>>

Next ==
    \/ ReadConfig
    \/ FilterExisting
    \/ ScanDuplicates
    \/ ListDuplicates
    \/ ConfirmAndDelete
    \/ Prompt
    \/ DeleteNext
    \/ CollectToSend
    \/ EnqueueToSubler
    \/ AppKitOpen
    \/ AppKitRaise
    \/ ScriptEnqueue
    \/ EnqueueAndWait
    \/ QueueWait

Spec == Init /\ [][Next]_vars

----------------------------------------------------------------------------
(* read_config alone: the four candidate files drawn freely *)

\* "", " ", "#/d", " #/d", "/d", " /x<tab>", "~/d"
ConfigLines ==
    { <<>>, <<" ">>, <<"#", "/", "d">>, <<" ", "#", "/", "d">>, <<"/", "d">>,
      <<" ", "/", "x", "\t">>, <<"~", "/", "d">> }

\* the text of every config file after the first existing one: "/o"
OtherText == <<"/", "o", "\n">>

Min(S) == CHOOSE x \in S : \A y \in S : x <= y

InitConfig ==
    /\ \E present \in SUBSET (1..Len(CONFIG_PATHS)) :
       \E t \in Texts(ConfigLines, MaxLines) :
          cfg = [i \in 1..Len(CONFIG_PATHS) |->
                    IF i \notin present THEN None
                    ELSE IF i = Min(present) THEN Some(t)
                    ELSE Some(OtherText)]
    /\ tree = {}
    /\ args = [mode |-> "none", dry_run |-> FALSE, yes |-> FALSE, verbose |-> 0,
               maxdepth |-> DefaultMaxDepth, wait_timeout |-> DEFAULT_WAIT]
    /\ pc = "start"
    /\ drives = <<>> /\ existing = <<>> /\ duplicates = <<>> /\ to_send = <<>>
    /\ idx = 1
    /\ out = <<>> /\ calls = <<>> /\ effects = <<>>
    /\ answer = None /\ trashed = {} /\ exitCode = None
    /\ scanRoot = <<>> /\ scanDepth = 0 /\ yielded = <<>>

SpecConfig == InitConfig /\ [][ReadConfig]_vars

----------------------------------------------------------------------------
(* find_candidates alone: the tree, the root and maxdepth drawn freely *)

DOT_MKV == <<".", "m", "k", "v">>
NO_DOT == <<"m", "k", "v">>

\* a.mkv, b.M4v, a.mp4, .mkv, mkv
ScanNames == {A_MKV, B_M4V, A_MP4, DOT_MKV, NO_DOT}

ScanFiles == {Append(d, nm) : d \in Dirs \ {<<<<"h">>>>}, nm \in ScanNames}

ScanRoots == (Dirs \ {<<<<"h">>>>}) \cup {Link}

\* list(find_candidates(root, maxdepth))
Scan ==
    /\ pc = "scan_harness"
    /\ yielded' = find_candidates(tree, scanRoot, scanDepth)
    /\ pc' = "scanned"
    /\ UNCHANGED <<cfg, tree, args, drives, existing, duplicates, to_send, idx, out,
                   calls, effects, answer, trashed, exitCode, scanRoot, scanDepth>>

InitScan ==
    /\ tree \in {t \in SUBSET ScanFiles : Cardinality(t) <= MaxFiles}
    /\ scanRoot \in ScanRoots
    /\ scanDepth \in 0..MaxDepthArg
    /\ yielded = <<>>
    /\ pc = "scan_harness"
    /\ cfg = NoConfigs
    /\ args = [mode |-> "none", dry_run |-> FALSE, yes |-> FALSE, verbose |-> 0,
               maxdepth |-> DefaultMaxDepth, wait_timeout |-> DEFAULT_WAIT]
    /\ drives = <<>> /\ existing = <<>> /\ duplicates = <<>> /\ to_send = <<>>
    /\ idx = 1
    /\ out = <<>> /\ calls = <<>> /\ effects = <<>>
    /\ answer = None /\ trashed = {} /\ exitCode = None

SpecScan == InitScan /\ [][Scan]_vars

----------------------------------------------------------------------------
(* enqueue_to_subler alone: the files drawn freely, odd names included *)

\* /d/a.mkv, /d/a".mkv, /d/a\.mkv
EnqueuePaths ==
    { <<<<"d">>, A_MKV>>,
      <<<<"d">>, <<"a", QUOTE, ".", "m", "k", "v">>>>,
      <<<<"d">>, <<"a", BACKSLASH, ".", "m", "k", "v">>>> }

InitEnqueue ==
    /\ to_send \in UNION {[1..k -> EnqueuePaths] : k \in 0..MaxEnqueue}
    /\ tree = Range(to_send)
    /\ args \in [mode : {"send", "none"}, dry_run : BOOLEAN, yes : {FALSE},
                 verbose : {0, 1}, maxdepth : {DefaultMaxDepth},
                 wait_timeout : {DEFAULT_WAIT}]
    /\ pc = "enqueue"
    /\ cfg = NoConfigs
    /\ drives = <<>> /\ existing = <<>> /\ duplicates = <<>>
    /\ idx = 1
    /\ out = <<>> /\ calls = <<>> /\ effects = <<>>
    /\ answer = None /\ trashed = {} /\ exitCode = None
    /\ scanRoot = <<>> /\ scanDepth = 0 /\ yielded = <<>>

NextEnqueue ==
    \/ EnqueueToSubler
    \/ AppKitOpen
    \/ AppKitRaise
    \/ ScriptEnqueue

SpecEnqueue == InitEnqueue /\ [][NextEnqueue]_vars

----------------------------------------------------------------------------
(* Properties of read_config, under SpecConfig *)

ConfigExists == \E i \in 1..Len(CONFIG_PATHS) : cfg[i] # None
FirstConfig == Min({i \in 1..Len(CONFIG_PATHS) : cfg[i] # None})
FirstConfigLines == splitlines(cfg[FirstConfig][1])

\* C7 as stated: of the first existing candidate only, every line that is
\* neither blank nor starting with '#' contributes exactly one entry, so the
\* list has as many entries as there are such lines.
C7_Original ==
    (pc # "start" /\ ConfigExists) =>
        Len(drives) = Cardinality({j \in 1..Len(FirstConfigLines) :
                          /\ strip(FirstConfigLines[j]) # <<>>
                          /\ ~startswith(FirstConfigLines[j], <<"#">>)})

\* C7, amended: read_config reads the first existing candidate and no other (it
\* raises when there is none); a line contributes no entry when, stripped of
\* surrounding whitespace, it is empty or starts with '#', and every other
\* line contributes exactly one entry, the stripped line as a path with "~"
\* expanded, in file order.
C7_ReadConfig ==
    pc # "start" =>
        IF ~ConfigExists
        THEN pc = "done" /\ exitCode = Some(1) /\ drives = <<>>
        ELSE LET C == {j \in 1..Len(FirstConfigLines) :
                          /\ strip(FirstConfigLines[j]) # <<>>
                          /\ Head(strip(FirstConfigLines[j])) # "#"}
             IN  /\ pc = "validate" /\ exitCode = None
                 /\ Len(drives) = Cardinality(C)
                 /\ \A j \in C :
                       drives[Cardinality({i \in C : i <= j})] =
                          PathOf(expanduser(strip(FirstConfigLines[j])))

\* the second candidate is the first to exist, the third exists too, and of the
\* two lines of the second one was skipped
C7_Witness ==
    /\ pc = "validate"
    /\ cfg[1] = None /\ cfg[2] # None /\ cfg[3] # None
    /\ Len(splitlines(cfg[2][1])) = 2
    /\ Len(drives) = 1

----------------------------------------------------------------------------
(* Properties of find_candidates, under SpecScan *)

IsMedia(nm) == endswith(lower(nm), MKV) \/ endswith(lower(nm), M4V)

\* f lies in a directory at or below the (resolved) root, depth_of levels down
Under(root, f) == startswith(parent(f), resolve(root))
DepthBelow(root, f) == Len(parent(f)) - Len(resolve(root))

\* C8: find_candidates yields exactly the files in directories at depth
\* <= maxdepth below the root (the root being depth 0) whose name ends in .mkv
\* or .m4v, case-insensitively: nothing deeper, nothing else, and all of them.
C8_FindCandidates ==
    pc = "scanned" =>
        Range(yielded) = {f \in tree : /\ Under(scanRoot, f)
                                       /\ DepthBelow(scanRoot, f) <= scanDepth
                                       /\ IsMedia(name(f))}

\* one candidate was yielded and another lies too deep
C8_Witness ==
    /\ pc = "scanned"
    /\ yielded # <<>>
    /\ \E f \in tree : /\ Under(scanRoot, f) /\ IsMedia(name(f))
                       /\ DepthBelow(scanRoot, f) > scanDepth

----------------------------------------------------------------------------
(* Properties of enqueue_to_subler, under SpecEnqueue *)

RECURSIVE CallsOf(_, _)
CallsOf(cs, fn) ==
    IF cs = <<>> THEN <<>>
    ELSE (IF Head(cs).fn = fn THEN <<Head(cs)>> ELSE <<>>) \o CallsOf(Tail(cs), fn)

\* C3: with dry_run false and a non-empty list, once enqueue_to_subler has
\* returned, either the native path succeeded and no script was run, or one
\* script was run per file, in list order, each telling Subler and each with
\* a POSIX file literal that AppleScript reads as that file's path.
C3_EnqueueFallback ==
    (pc = "done" /\ ~args.dry_run /\ to_send # <<>>) =>
        LET scripts == CallsOf(calls, "run_applescript")
            opens == CallsOf(calls, "openFile")
        IN  \/ /\ scripts = <<>>
               /\ opens = [i \in 1..Len(to_send) |-> open_call(to_send[i])]
            \/ /\ Len(scripts) = Len(to_send)
               /\ \A i \in 1..Len(scripts) :
                     /\ scripts[i].script.kind = "enqueue"
                     /\ scripts[i].script.app = "Subler"
                     /\ applescript_string(scripts[i].script.literal)
                           = Some(PathStr(to_send[i]))

\* the part of C3 that does not depend on the quoting: no script after a native
\* success, else one script per file, built for the files in list order
C3_OneScriptPerFile ==
    (pc = "done" /\ ~args.dry_run /\ to_send # <<>>) =>
        LET scripts == CallsOf(calls, "run_applescript")
            opens == CallsOf(calls, "openFile")
        IN  \/ /\ scripts = <<>>
               /\ opens = [i \in 1..Len(to_send) |-> open_call(to_send[i])]
            \/ scripts = [i \in 1..Len(to_send) |->
                             script_call(to_send[i], enqueue_script(to_send[i]))]

----------------------------------------------------------------------------
(* Properties of a whole run, under Spec *)

\* the candidates scanned under the existing configured roots
Candidates ==
    UNION {Range(find_candidates(tree, d, args.maxdepth)) : d \in Range(existing)}
WithMp4 == {p \in Candidates : has_mp4_equivalent(tree, p)}
WithoutMp4 == {p \in Candidates : ~has_mp4_equivalent(tree, p)}

Finished == pc = "done" /\ exitCode = Some(0)
IsDelete(c) == c.fn = "run_applescript" /\ c.script.kind = "delete"
IsEnqueue(c) == c.fn = "openFile" \/ (c.fn = "run_applescript" /\ c.script.kind = "enqueue")

\* C1: send mode and the default hand enqueue_to_subler exactly the candidates
\* without an mp4 equivalent; dup mode prints exactly those with one; rm mode
\* with --yes and no dry run issues a delete for exactly those with one; rm
\* never deletes a candidate without an mp4 sibling and send never enqueues
\* one with.
C1_Dispatch ==
    /\ (args.mode \in {"send", "none"} /\ (pc \in {"enqueue", "appkit", "fallback"} \/ Finished))
          => Range(to_send) = WithoutMp4
    /\ (args.mode = "dup" /\ Finished)
          => /\ {out[i].file : i \in 1..Len(out)} = WithMp4
             /\ \A i \in 1..Len(out) : out[i].text = ""
    /\ (args.mode = "rm" /\ args.yes /\ ~args.dry_run /\ Finished)
          => {calls[i].file : i \in 1..Len(calls)} = WithMp4
    /\ args.mode = "rm"
          => \A i \in 1..Len(calls) : IsDelete(calls[i]) /\ calls[i].file \in WithMp4
    /\ args.mode \in {"send", "none"}
          => \A i \in 1..Len(calls) : IsEnqueue(calls[i]) /\ calls[i].file \in WithoutMp4

\* rm --yes deleted a duplicate and left alone a candidate that has no mp4
C1_Witness ==
    /\ args.mode = "rm" /\ args.yes /\ ~args.dry_run /\ Finished
    /\ calls # <<>>
    /\ WithoutMp4 # {}

\* C2: with --dry-run nothing is opened, no script is run and nothing is
\* deleted, in every mode.
C2_DryRun ==
    args.dry_run =>
        /\ calls = <<>> /\ effects = <<>> /\ trashed = {}
        /\ pc \notin {"appkit", "fallback", "waiting", "delete"}

\* a dry run in send mode that reported files and returned
C2_Witness ==
    /\ args.dry_run /\ args.mode = "send" /\ Finished
    /\ to_send # <<>> /\ out # <<>>

YesWords == {<<"y">>, <<"y", "e", "s">>}
Confirmed ==
    args.yes \/ (answer # None /\ lower(strip(answer[1])) \in YesWords)
Listing ==
    <<Line("Files queued for deletion:", NoPath, 0)>> \o LinesFor("  ", duplicates, 0)

\* C4 as stated: an answer other than 'y' or 'yes' leads to no delete call.
C4_Original ==
    (args.mode = "rm" /\ ~args.dry_run /\ answer # None /\ answer[1] \notin YesWords)
        => calls = <<>>

\* C4, amended: in rm mode without dry run a delete call is issued only after
\* the whole list was printed and confirmation obtained (--yes, or an answer
\* that is 'y' or 'yes' once stripped of surrounding whitespace and
\* lower-cased); the delete calls are one per listed file, in list order, all
\* of them once the confirmed run has returned; any other answer leads to no
\* delete call and to exit code 0.
C4_ConfirmBeforeDelete ==
    (args.mode = "rm" /\ ~args.dry_run) =>
        /\ calls # <<>> => (Confirmed /\ out = Listing)
        /\ Len(calls) <= Len(duplicates)
        /\ \A i \in 1..Len(calls) :
              calls[i] = script_call(duplicates[i], delete_script(duplicates[i]))
        /\ (Finished /\ Confirmed) => Len(calls) = Len(duplicates)
        /\ (answer # None /\ ~Confirmed) => (calls = <<>> /\ Finished)

\* the answer " Yes<tab>" confirmed, and two files were deleted
C4_Witness ==
    /\ args.mode = "rm" /\ ~args.dry_run /\ ~args.yes /\ Finished
    /\ answer = Some(<<" ", "Y", "e", "s", "\t">>)
    /\ Len(calls) >= 2

\* every script so far is the wait script of the file at its place in the list,
\* and the script of the next file is started only when the one before ended
WaitInOrder ==
    /\ Len(calls) = (IF pc = "waiting" THEN idx ELSE idx - 1)
    /\ \A i \in 1..Len(calls) :
          calls[i] = script_call(to_send[i], wait_script(to_send[i], args.wait_timeout))
    /\ pc = "waiting" =>
          effects = <<[app |-> "Subler", op |-> "add to queue", file |-> to_send[idx]]>>
    /\ (pc # "waiting" /\ effects # <<>>) =>
          /\ effects[1] = [app |-> "Subler", op |-> "add to queue",
                           file |-> to_send[idx - 1]]
          /\ effects[2].app = "Subler" /\ effects[2].op \in WaitOutcomes

\* C5: in wait mode without dry run the files are handled one at a time in
\* list order, the next script is not started before the previous wait ended,
\* and Finder deletes a file only right after Subler converted that file, never
\* after a timeout or a failed conversion.
C5_WaitThenDelete ==
    (args.mode = "wait" /\ ~args.dry_run /\ pc \in {"wait", "waiting", "done"}) =>
        /\ WaitInOrder
        /\ \A i \in 1..Len(effects) :
              effects[i].app = "Finder" =>
                 /\ i > 1
                 /\ effects[i - 1] = [app |-> "Subler", op |-> "converted",
                                      file |-> effects[i].file]

\* the parts of C5 about order, with the delete right after the command
\* returned for that file, whatever became of the conversion
C5_OneAtATime ==
    (args.mode = "wait" /\ ~args.dry_run /\ pc \in {"wait", "waiting", "done"}) =>
        /\ WaitInOrder
        /\ \A i \in 1..Len(effects) :
              effects[i].app = "Finder" =>
                 /\ i > 1
                 /\ effects[i - 1].app = "Subler"
                 /\ effects[i - 1].op \in Returned
                 /\ effects[i - 1].file = effects[i].file

\* C6: main returns 1 exactly when no candidate config file exists, 2 exactly
\* when one was read and none of the directories it lists exists, 0 otherwise;
\* with 1 or 2 nothing was scanned, enqueued or deleted.
C6_ExitCodes ==
    pc = "done" =>
        /\ exitCode \in {Some(0), Some(1), Some(2)}
        /\ exitCode = Some(1) <=> ~ConfigExists
        /\ exitCode = Some(2) <=>
              (ConfigExists /\ \A i \in 1..Len(drives) : ~exists(tree, drives[i]))
        /\ exitCode \in {Some(1), Some(2)} =>
              /\ calls = <<>> /\ effects = <<>> /\ trashed = {}
              /\ duplicates = <<>> /\ to_send = <<>>
              /\ Len(out) = 1

\* a config file listing only absent directories: exit code 2
C6_Witness ==
    /\ pc = "done" /\ exitCode = Some(2)
    /\ drives # <<>>

DryRunTexts ==
    { "DRY-RUN: would enqueue", "DRY-RUN: would enqueue and wait for",
      "DRY-RUN: would delete files" }
Count(texts) == Cardinality({i \in 1..Len(out) : out[i].text \in texts})
Affected == IF args.mode = "rm" THEN duplicates ELSE to_send

\* C9 as stated: a dry run prints as many DRY-RUN reports as there are files
\* in the affected set, counted as distinct files or as list entries.
C9_Original ==
    (args.dry_run /\ Finished /\ args.mode \in {"send", "none", "wait", "rm"}) =>
        \/ Count(DryRunTexts) = Len(Affected)
        \/ Count(DryRunTexts) = Cardinality(Range(Affected))

\* C9, amended: a dry run in send, default or wait mode prints one DRY-RUN
\* report per entry of the send list, in list order; in rm mode it prints one
\* line per entry of the duplicate list and then a single DRY-RUN report that
\* carries the number of entries (none when the list is empty).
C9_DryRunReports ==
    (args.dry_run /\ Finished) =>
        /\ args.mode \in {"send", "none"} =>
              /\ Count(DryRunTexts) = Len(to_send)
              /\ \A i \in 1..Len(to_send) :
                    out[i].text = "DRY-RUN: would enqueue" /\ out[i].file = to_send[i]
        /\ args.mode = "wait" =>
              /\ Count(DryRunTexts) = Len(to_send)
              /\ \A i \in 1..Len(to_send) :
                    /\ out[i].text = "DRY-RUN: would enqueue and wait for"
                    /\ out[i].file = to_send[i]
        /\ args.mode = "rm" =>
              /\ Count({"  "}) = Len(duplicates)
              /\ \A i \in 1..Len(duplicates) : out[i + 1].file = duplicates[i]
              /\ Count(DryRunTexts) = (IF duplicates = <<>> THEN 0 ELSE 1)
              /\ duplicates # <<>> =>
                    out[Len(out)] = Line("DRY-RUN: would delete files", NoPath,
                                         Len(duplicates))

\* a dry run of rm over two different duplicates
C9_Witness ==
    /\ args.dry_run /\ args.mode = "rm" /\ Finished
    /\ Cardinality(Range(duplicates)) >= 2

\* C10: in send mode or the default, without dry run, no file is handed to
\* Subler twice, native opens and scripts counted together.
C10_AtMostOnce ==
    (args.mode \in {"send", "none"} /\ ~args.dry_run) =>
        \A i, j \in 1..Len(calls) : i # j => calls[i].file # calls[j].file

====
